---- MODULE Spec2Model ----
(***************************************************************************)
(* Unigram (SentencePiece-style) Viterbi segmentation, as implemented by   *)
(* src/src/spiece_basic.rs (naive lookup and character trie) and           *)
(* src/src/spiece_dart.rs (double-array trie).                             *)
(*                                                                         *)
(* Strings are sequences of Unicode scalar values; their UTF-8 encoding is *)
(* computed by Utf8, so that byte offsets and byte lengths are what the    *)
(* Rust code sees.  f32 values are modelled on the grid of integer         *)
(* multiples of 2^104: k stands for k * 2^104, which is exactly            *)
(* representable for |k| <= 2^24 - 1, f32::MAX being (2^24 - 1) * 2^104.   *)
(* On that grid f32 addition is exact, or overflows to an infinity.        *)
(***************************************************************************)
EXTENDS Integers, Sequences, FiniteSets, TLC

\* ------------------------------------------------------------- bounds
MaxPieces == 2
MaxPieceLen == 2
MaxLen == 2

\* --------------------------------------------------------- characters
CH_A == 97
CH_SP == 32
CH_LB == 9601

PieceChars == {CH_A, CH_LB}
RawChars == {CH_A, CH_SP, CH_LB}

StringsUpTo(A, L) == UNION {[1..k -> A] : k \in 0..L}

\* UTF-8 encoding of one scalar value below U+10000.
Utf8Char(c) ==
    IF c < 128 THEN <<c>>
    ELSE IF c < 2048 THEN <<192 + (c \div 64), 128 + (c % 64)>>
    ELSE <<224 + (c \div 4096), 128 + ((c \div 64) % 64), 128 + (c % 64)>>

RECURSIVE Utf8(_)
Utf8(s) == IF s = <<>> THEN <<>> ELSE Utf8Char(Head(s)) \o Utf8(Tail(s))

\* str::len(): the length in bytes.
ByteLen(s) == Len(Utf8(s))

\* str::chars().count(): the length in characters.
CharCount(s) == Len(s)

\* text.char_indices().map(|(pos, _)| pos), then push(text.len()).
\* Rust index i is element i + 1 of the sequence.
CharPositions(s) == [i \in 1..(Len(s) + 1) |-> ByteLen(SubSeq(s, 1, i - 1))]

\* &text[lo..hi] for byte offsets lo <= hi that are character boundaries.
StrSlice(s, lo, hi) ==
    LET cp == CharPositions(s)
        from == CHOOSE i \in 1..Len(cp) : cp[i] = lo
        to == CHOOSE i \in 1..Len(cp) : cp[i] = hi
    IN SubSeq(s, from, to - 1)

\* Normalize without the substitution.
NormalizeNone(s) == s

\* str::replace(' ', "\u{2581}")
Normalize(s) == [i \in 1..Len(s) |-> IF s[i] = CH_SP THEN CH_LB ELSE s[i]]

\* ---------------------------------------------------------------- f32
F32Max == 16777215
F32MIN == -F32Max
PosInf == F32Max + 1
NegInf == -(F32Max + 1)
NaN == F32Max + 2

F32Add(x, y) ==
    IF x = NaN \/ y = NaN THEN NaN
    ELSE IF x = PosInf THEN (IF y = NegInf THEN NaN ELSE PosInf)
    ELSE IF x = NegInf THEN (IF y = PosInf THEN NaN ELSE NegInf)
    ELSE IF y = PosInf \/ y = NegInf THEN y
    ELSE LET s == x + y
         IN IF s > F32Max THEN PosInf
            ELSE IF s < -F32Max THEN NegInf
            ELSE s

F32Gt(x, y) == x # NaN /\ y # NaN /\ x > y
F32Le(x, y) == x # NaN /\ y # NaN /\ x <= y

ScoreVals == {-1, -2, F32MIN, NaN, NegInf, PosInf}
PieceTexts == StringsUpTo(PieceChars, MaxPieceLen)
Inputs == StringsUpTo(RawChars, MaxLen)

VARIABLES
    pieces,     \* the pieces of the model file read so far (proto.get_pieces())
    vocab,      \* spiece_basic SentencePieceModel.vocab
    root,       \* spiece_basic SentencePieceModel.root (the character trie)
    dvocab,     \* spiece_dart SentencePieceModel.vocab
    records,    \* the sorted keys the double-array trie is built from
    pc,         \* where the driver is
    raw,        \* the text passed to tokenize / tokenize_dag
    fw,         \* the locals of the forward pass in progress
    out         \* what each of the three tokenizers returned for raw

vars == <<pieces, vocab, root, dvocab, records, pc, raw, fw, out>>

\* DagNode::new measuring the text in bytes.
NewDagNodeByteLen(text) ==
    [text |-> text, len |-> ByteLen(text), score |-> 0, index |-> 0,
     leaf |-> FALSE, children |-> {}]

\* DagNode::new
NewDagNode(text) ==
    [text |-> text, len |-> CharCount(text), score |-> 0, index |-> 0,
     leaf |-> FALSE, children |-> {}]

\* SentencePieceModel::insert: the walk from character idx of word, standing
\* at the node reached by `path`.  The trie is a map from the path of a node
\* (the characters on the edges from the root) to the node; `children` holds
\* the keys of the node's child map.
RECURSIVE InsertFrom(_, _, _, _, _, _)
InsertFrom(trie, word, idx, path, score, index) ==
    IF idx >= CharCount(word) THEN trie
    ELSE LET character == word[idx + 1]
             child == Append(path, character)
             t1 == IF character \notin trie[path].children
                   THEN [p \in DOMAIN trie \cup {child} |->
                           IF p = child
                           THEN NewDagNode(Append(trie[path].text, character))
                           ELSE IF p = path
                           THEN [trie[path] EXCEPT !.children = @ \cup {character}]
                           ELSE trie[p]]
                   ELSE trie
             t2 == IF idx = CharCount(word) - 1
                   THEN [t1 EXCEPT ![child] =
                           [@ EXCEPT !.leaf = TRUE, !.score = score, !.index = index]]
                   ELSE t1
         IN InsertFrom(t2, word, idx + 1, child, score, index)

TrieInsert(trie, word, score, index) == InsertFrom(trie, word, 0, <<>>, score, index)

\* HashMap::insert: the last value written for a key wins.
MapInsert(map, key, value) ==
    [k \in DOMAIN map \cup {key} |-> IF k = key THEN value ELSE map[k]]

EmptyMap == [k \in {} |-> 0]

\* ------------------------------------------------- lattice and edges
NoneNode ==
    [some |-> FALSE, text |-> <<>>, score |-> 0, index |-> 0, start |-> 0, end |-> 0]

SomeNode(text, score, index, start, end) ==
    [some |-> TRUE, text |-> text, score |-> score, index |-> index,
     start |-> start, end |-> end]

\* The locals of a forward pass over `text`.  results and scores are indexed
\* by boundary + 1.  fallback records the boundaries at which the forced
\* single-character edge was stored.
ForwardLocals(text) ==
    LET cp == CharPositions(text)
    IN [text |-> text,
        char_positions |-> cp,
        results |-> [i \in 1..Len(cp) |-> NoneNode],
        scores |-> [i \in 1..Len(cp) |-> IF i = 1 THEN 0 ELSE NegInf],
        char_end |-> 0,
        char_start |-> 0,
        matches |-> <<>>,
        fallback |-> {},
        status |-> "run"]

IdleLocals == [ForwardLocals(<<>>) EXCEPT !.status = "idle"]

\* Relax keeping the first edge found at a boundary.
RelaxFirstWins(st, sub_text, local_score, index, char_start, char_end) ==
    IF ~st.results[char_end + 1].some /\ local_score # NaN
    THEN [st EXCEPT
            !.results[char_end + 1] =
                [some |-> TRUE, text |-> sub_text, score |-> local_score,
                 index |-> index, start |-> char_start, end |-> char_end],
            !.scores[char_end + 1] = local_score]
    ELSE st

\* Relax replacing on >= instead of >.
RelaxGe(st, sub_text, local_score, index, char_start, char_end) ==
    IF local_score # NaN /\ local_score >= st.scores[char_end + 1]
    THEN [st EXCEPT
            !.results[char_end + 1] =
                [some |-> TRUE, text |-> sub_text, score |-> local_score,
                 index |-> index, start |-> char_start, end |-> char_end],
            !.scores[char_end + 1] = local_score]
    ELSE st

\* if local_score > scores[char_end] { results[char_end] = Some(..); scores[char_end] = local_score }
Relax(st, sub_text, local_score, index, char_start, char_end) ==
    IF F32Gt(local_score, st.scores[char_end + 1])
    THEN [st EXCEPT
            !.results[char_end + 1] =
                SomeNode(sub_text, local_score, index, char_start, char_end),
            !.scores[char_end + 1] = local_score]
    ELSE st

\* ForceEdge resetting the score without storing the edge.
ForceEdgeScoreOnly(st, i) ==
    IF i = 0 THEN [st EXCEPT !.status = "panic"]
    ELSE [st EXCEPT !.scores[i + 1] = 0, !.fallback = @ \cup {i}]

\* ForceEdge with start = i instead of i - 1.
ForceEdgeSelfLoop(st, i) ==
    [st EXCEPT
        !.results[i + 1] =
            [some |-> TRUE, text |-> <<st.text[i]>>, score |-> F32MIN, index |-> 0,
             start |-> i, end |-> i],
        !.scores[i + 1] = 0,
        !.fallback = @ \cup {i}]

\* The body of `if scores[i] <= std::f32::MIN`: the forced edge over the
\* character before boundary i.  i - 1 underflows for i = 0.
ForceEdge(st, i) ==
    IF i = 0 THEN [st EXCEPT !.status = "panic"]
    ELSE [st EXCEPT
            !.results[i + 1] =
                SomeNode(StrSlice(st.text, st.char_positions[i], st.char_positions[i + 1]),
                         F32MIN, 0, i - 1, i),
            !.scores[i + 1] = 0,
            !.fallback = @ \cup {i}]

\* FallbackRule comparing with < instead of <=.
FallbackRuleStrict(st, i) ==
    IF st.scores[i + 1] < F32MIN THEN ForceEdge(st, i) ELSE st

FallbackRule(st, i) ==
    IF F32Le(st.scores[i + 1], F32MIN) THEN ForceEdge(st, i) ELSE st

\* --------------------------------- spiece_basic: the naive forward pass
NaiveInit(text) == ForwardLocals(text)

\* One turn of the inner loop (char_start < char_end), or the end of one turn
\* of the outer loop (char_start = char_end).
NaiveStep(v, st) ==
    IF st.char_start < st.char_end
    THEN LET sub_text == StrSlice(st.text, st.char_positions[st.char_start + 1],
                                  st.char_positions[st.char_end + 1])
             st1 == IF sub_text \in DOMAIN v
                    THEN Relax(st, sub_text,
                               F32Add(st.scores[st.char_start + 1], v[sub_text].score),
                               v[sub_text].index, st.char_start, st.char_end)
                    ELSE st
         IN [st1 EXCEPT !.char_start = @ + 1]
    ELSE LET st1 == FallbackRule(st, st.char_end)
             next == st.char_end + 1
         IN IF st1.status = "panic" THEN st1
            ELSE [st1 EXCEPT !.char_end = next, !.char_start = 0,
                             !.status = IF next >= Len(st.char_positions)
                                        THEN "done" ELSE "run"]

\* --------------------------- spiece_basic: the character-trie search
RECURSIVE TrieWalk(_, _, _, _)
TrieWalk(trie, path, rest, results) ==
    IF rest = <<>> THEN results
    ELSE LET character == Head(rest)
         IN IF character \in trie[path].children
            THEN LET child == Append(path, character)
                 IN TrieWalk(trie, child, Tail(rest),
                             IF trie[child].leaf THEN Append(results, trie[child])
                             ELSE results)
            ELSE results

\* CommonPrefixSearch pushing the first node whether it is a piece or not.
CommonPrefixSearchPushFirst(trie, text) ==
    LET first == Head(text)
    IN IF first \in trie[<<>>].children
       THEN TrieWalk(trie, <<first>>, Tail(text), <<trie[<<first>>]>>)
       ELSE <<>>

\* CommonPrefixSearch without the piece test on the first node.
CommonPrefixSearchSkipFirst(trie, text) ==
    LET first == Head(text)
    IN IF first \in trie[<<>>].children
       THEN TrieWalk(trie, <<first>>, Tail(text), <<>>)
       ELSE <<>>

CommonPrefixSearch(trie, text) ==
    LET first == Head(text)
    IN IF first \in trie[<<>>].children
       THEN TrieWalk(trie, <<first>>, Tail(text),
                     IF trie[<<first>>].leaf THEN <<trie[<<first>>]>> ELSE <<>>)
       ELSE <<>>

TrieSearch(text) == CommonPrefixSearch(root, text)

\* ------------------------------------------------------- spiece_dart
\* a.cmp(&b) on &str: the order of the byte sequences
RECURSIVE BytesLess(_, _)
BytesLess(a, b) ==
    IF b = <<>> THEN FALSE
    ELSE IF a = <<>> THEN TRUE
    ELSE IF Head(a) # Head(b) THEN Head(a) < Head(b)
    ELSE BytesLess(Tail(a), Tail(b))

\* records.sort_by(|a, b| a.cmp(&b)): a stable sort
RECURSIVE SortRecords(_)
SortRecords(recs) ==
    IF recs = <<>> THEN <<>>
    ELSE LET rest == SortRecords(Tail(recs))
             x == Head(recs)
             before == SelectSeq(rest, LAMBDA r : BytesLess(Utf8(r), Utf8(x)))
             after == SelectSeq(rest, LAMBDA r : ~BytesLess(Utf8(r), Utf8(x)))
         IN before \o <<x>> \o after

\* The loop of from_file of spiece_dart over the pieces from index idx on.
RECURSIVE DartVocabFrom(_, _, _)
DartVocabFrom(ps, idx, map) ==
    IF idx >= Len(ps) THEN map
    ELSE LET text == ps[idx + 1].text
         IN DartVocabFrom(ps, idx + 1,
                MapInsert(map, text,
                    [text |-> text, len |-> ByteLen(text),
                     score |-> ps[idx + 1].score, index |-> idx]))

\* DoubleArrayTrie::common_prefix_search of the darts crate: the byte offsets
\* at which a key of the trie ends in `text`, shortest first.
RECURSIVE DartEnds(_, _, _)
DartEnds(recs, bytes, e) ==
    IF e > Len(bytes) THEN <<>>
    ELSE (IF \E i \in 1..Len(recs) : Utf8(recs[i]) = SubSeq(bytes, 1, e)
          THEN <<e>> ELSE <<>>) \o DartEnds(recs, bytes, e + 1)

DartCommonPrefixSearch(dv, recs, text) ==
    LET ends == DartEnds(recs, Utf8(text), 1)
    IN [i \in 1..Len(ends) |-> dv[StrSlice(text, 0, ends[i])]]

DartSearch(text) == DartCommonPrefixSearch(dvocab, records, text)

\* self.common_prefix_search(..) of the model the pass runs on
PrefixSearch(kind, text) ==
    IF kind = "trie" THEN TrieSearch(text) ELSE DartSearch(text)

\* ------------------------------- the forward pass over prefix matches
\* (decode_forward_dag of spiece_basic and decode_forward of spiece_dart:
\* the same loop over a different common_prefix_search)
Suffix(st, char_start) ==
    StrSlice(st.text, st.char_positions[char_start + 1], ByteLen(st.text))

DagInit(kind, text) ==
    LET st == ForwardLocals(text)
    IN IF Len(st.char_positions) - 1 = 0
       THEN [st EXCEPT !.status = "done"]
       ELSE [st EXCEPT !.matches = PrefixSearch(kind, Suffix(st, 0))]

DagStep(kind, st) ==
    IF st.matches # <<>>
    THEN LET node == Head(st.matches)
             local_score == F32Add(st.scores[st.char_start + 1], node.score)
             char_end == st.char_start + node.len
         IN IF char_end >= Len(st.scores)
            THEN [st EXCEPT !.status = "panic"]
            ELSE [Relax(st,
                        StrSlice(st.text, st.char_positions[st.char_start + 1],
                                 st.char_positions[char_end + 1]),
                        local_score, node.index, st.char_start, char_end)
                  EXCEPT !.matches = Tail(st.matches)]
    ELSE LET st1 == FallbackRule(st, st.char_start + 1)
             next == st.char_start + 1
         IN IF next >= Len(st.char_positions) - 1
            THEN [st1 EXCEPT !.char_start = next, !.status = "done"]
            ELSE [st1 EXCEPT !.char_start = next, !.matches = PrefixSearch(kind, Suffix(st, next))]

\* ------------------------------------------------------ backward pass
\* decode_backward: next is the boundary of next_node, acc the sequence
\* pushed so far, already in the order reverse() leaves it.  A loop that has
\* made more turns than there are boundaries never ends.
RECURSIVE BackFrom(_, _, _, _)
BackFrom(nodes, next, acc, turns) ==
    IF ~nodes[next + 1].some THEN [ok |-> TRUE, seq |-> acc]
    ELSE IF turns > Len(nodes) THEN [ok |-> FALSE, seq |-> acc]
    ELSE BackFrom(nodes, nodes[next + 1].start, <<nodes[next + 1]>> \o acc, turns + 1)

DecodeBackward(nodes) == BackFrom(nodes, Len(nodes) - 1, <<>>, 0)

NoOut ==
    [status |-> "none", results |-> <<>>, scores |-> <<>>, fallback |-> {},
     tokens |-> <<>>]

\* decode_backward, then the map of each node to its text
Finish(st) ==
    IF st.status = "panic" THEN [NoOut EXCEPT !.status = "panic"]
    ELSE LET b == DecodeBackward(st.results)
         IN [status |-> IF b.ok THEN "ok" ELSE "diverge",
             results |-> st.results, scores |-> st.scores, fallback |-> st.fallback,
             tokens |-> [i \in 1..Len(b.seq) |-> b.seq[i].text]]

RECURSIVE RunNaive(_, _)
RunNaive(v, st) == IF st.status = "run" THEN RunNaive(v, NaiveStep(v, st)) ELSE st

RECURSIVE RunDag(_, _)
RunDag(kind, st) == IF st.status = "run" THEN RunDag(kind, DagStep(kind, st)) ELSE st

\* SentencePieceModel::tokenize and tokenize_dag of spiece_basic
Tokenize(text) == Finish(RunNaive(vocab, NaiveInit(Normalize(text))))
TokenizeDag(text) == Finish(RunDag("trie", DagInit("trie", Normalize(text))))

\* SentencePieceModel::tokenize_dag of spiece_dart
DartTokenizeDag(text) == Finish(RunDag("dart", DagInit("dart", Normalize(text))))

\* ------------------------------------------------------------ actions
Init ==
    /\ pieces = <<>>
    /\ vocab = EmptyMap
    /\ root = [p \in {<<>>} |-> NewDagNode(<<>>)]
    /\ dvocab = EmptyMap
    /\ records = <<>>
    /\ pc = "load"
    /\ raw = <<>>
    /\ fw = IdleLocals
    /\ out = [naive |-> NoOut, dag |-> NoOut, dart |-> NoOut]

\* One iteration of the loop of from_file (spiece_basic) over proto.get_pieces().
Insert ==
    /\ pc = "load"
    /\ Len(pieces) < MaxPieces
    /\ \E text \in PieceTexts, score \in ScoreVals :
         LET idx == Len(pieces)
         IN /\ pieces' = Append(pieces, [text |-> text, score |-> score])
            /\ root' = TrieInsert(root, text, score, idx)
            /\ vocab' = MapInsert(vocab, text, [score |-> score, index |-> idx])
    /\ UNCHANGED <<dvocab, records, pc, raw, fw, out>>

\* from_file of spiece_dart on the same model file; both models are now loaded.
DartFromFile ==
    /\ pc = "load"
    /\ dvocab' = DartVocabFrom(pieces, 0, EmptyMap)
    /\ records' = SortRecords([i \in 1..Len(pieces) |-> pieces[i].text])
    /\ pc' = "ready"
    /\ UNCHANGED <<pieces, vocab, root, raw, fw, out>>

\* tokenize(text) is called: normalisation and the set-up of decode_forward.
CallTokenize ==
    /\ pc = "ready"
    /\ \E text \in Inputs :
         /\ raw' = text
         /\ fw' = NaiveInit(Normalize(text))
    /\ pc' = "naive"
    /\ UNCHANGED <<pieces, vocab, root, dvocab, records, out>>

NaiveCandidate ==
    /\ pc = "naive" /\ fw.status = "run"
    /\ fw.char_start < fw.char_end
    /\ fw' = NaiveStep(vocab, fw)
    /\ UNCHANGED <<pieces, vocab, root, dvocab, records, pc, raw, out>>

NaiveFallback ==
    /\ pc = "naive" /\ fw.status = "run"
    /\ fw.char_start = fw.char_end
    /\ fw' = NaiveStep(vocab, fw)
    /\ UNCHANGED <<pieces, vocab, root, dvocab, records, pc, raw, out>>

ReturnTokenize ==
    /\ pc = "naive" /\ fw.status # "run"
    /\ out' = [out EXCEPT !.naive = Finish(fw)]
    /\ fw' = IdleLocals
    /\ pc' = "mid"
    /\ UNCHANGED <<pieces, vocab, root, dvocab, records, raw>>

\* tokenize_dag(text) is called on the same text.
CallTokenizeDag ==
    /\ pc = "mid"
    /\ fw' = DagInit("trie", Normalize(raw))
    /\ pc' = "dag"
    /\ UNCHANGED <<pieces, vocab, root, dvocab, records, raw, out>>

DagCandidate ==
    /\ pc = "dag" /\ fw.status = "run"
    /\ fw.matches # <<>>
    /\ fw' = DagStep("trie", fw)
    /\ UNCHANGED <<pieces, vocab, root, dvocab, records, pc, raw, out>>

DagFallback ==
    /\ pc = "dag" /\ fw.status = "run"
    /\ fw.matches = <<>>
    /\ fw' = DagStep("trie", fw)
    /\ UNCHANGED <<pieces, vocab, root, dvocab, records, pc, raw, out>>

ReturnTokenizeDag ==
    /\ pc = "dag" /\ fw.status # "run"
    /\ out' = [out EXCEPT !.dag = Finish(fw)]
    /\ fw' = IdleLocals
    /\ pc' = "mid2"
    /\ UNCHANGED <<pieces, vocab, root, dvocab, records, raw>>

\* tokenize_dag(text) of spiece_dart on the same text, call to return.
DartCall ==
    /\ pc = "mid2"
    /\ out' = [out EXCEPT !.dart = DartTokenizeDag(raw)]
    /\ pc' = "done"
    /\ UNCHANGED <<pieces, vocab, root, dvocab, records, raw, fw>>

\* The results are dropped; the models stay loaded for the next text.
NextText ==
    /\ pc = "done"
    /\ raw' = <<>>
    /\ out' = [naive |-> NoOut, dag |-> NoOut, dart |-> NoOut]
    /\ pc' = "ready"
    /\ UNCHANGED <<pieces, vocab, root, dvocab, records, fw>>

Next ==
    \/ Insert
    \/ DartFromFile
    \/ CallTokenize
    \/ NaiveCandidate
    \/ NaiveFallback
    \/ ReturnTokenize
    \/ CallTokenizeDag
    \/ DagCandidate
    \/ DagFallback
    \/ ReturnTokenizeDag
    \/ DartCall
    \/ NextText

Spec == Init /\ [][Next]_vars

\* ======================================================== properties
Basic == {"naive", "dag"}
Returned(k) == out[k].status # "none"
Text == Normalize(raw)
N == Len(Text)
Range(s) == {s[i] : i \in 1..Len(s)}

RECURSIVE Concat(_)
Concat(ss) == IF ss = <<>> THEN <<>> ELSE Head(ss) \o Concat(Tail(ss))

\* every U+2581 replaced by a space
Denormalize(s) == [i \in 1..Len(s) |-> IF s[i] = CH_LB THEN CH_SP ELSE s[i]]

\* the characters between boundaries s and i of the normalized text
PieceAt(s, i) == SubSeq(Text, s + 1, i)

\* the starts of the vocabulary pieces that end at boundary i
StartsAt(i) == {s \in 0..(i - 1) : PieceAt(s, i) \in DOMAIN vocab}

\* the score of the candidate from start s to boundary i in the lattice of k
Cand(k, s, i) == F32Add(out[k].scores[s + 1], vocab[PieceAt(s, i)].score)

\* the greatest element of a set of f32 values, NaN being ignored (f32::max)
F32MaxOf(S) ==
    LET R == S \ {NaN}
    IN IF R = {} THEN NaN ELSE CHOOSE m \in R : \A x \in R : m >= x

MinOf(S) == CHOOSE m \in S : \A x \in S : m <= x

\* the edge the fallback rule forces at boundary i
ForcedEdge(i) == SomeNode(SubSeq(Text, i, i), F32MIN, 0, i - 1, i)

\* the edge of the vocabulary piece from start s to boundary i
PieceEdge(k, s, i) ==
    SomeNode(PieceAt(s, i), Cand(k, s, i), vocab[PieceAt(s, i)].index, s, i)

\* every score of the vocabulary is a finite f32
FiniteVocab == \A t \in DOMAIN vocab : vocab[t].score \notin {NaN, PosInf, NegInf}

\* the model file holds distinct non-empty pieces with finite scores
WellFormedVocab ==
    /\ FiniteVocab
    /\ <<>> \notin DOMAIN vocab
    /\ Cardinality(DOMAIN vocab) = Len(pieces)

\* C1: tokenize and tokenize_dag of spiece_basic never panic, and the tokens
\* they return, concatenated in order, are the normalized input: the path
\* starts at boundary 0, each edge starts where the one before ends, and the
\* last ends at the last boundary; the empty input gives no token.
C1_TotalCoverage ==
    /\ (pc \in {"naive", "dag"} => fw.status # "panic")
    /\ \A k \in Basic : Returned(k) =>
         /\ out[k].status = "ok"
         /\ Concat(out[k].tokens) = Text
         /\ (raw = <<>> => out[k].tokens = <<>>)
         /\ LET path == DecodeBackward(out[k].results).seq
            IN /\ \A j \in 1..Len(path) :
                    /\ path[j].start = (IF j = 1 THEN 0 ELSE path[j - 1].end)
                    /\ path[j].start < path[j].end
               /\ (path # <<>> => path[Len(path)].end = N)

C1_Witness ==
    /\ Returned("naive") /\ Returned("dag")
    /\ CH_SP \in Range(raw)
    /\ Len(out.naive.tokens) = 2 /\ Len(out.dag.tokens) = 2
    /\ Cardinality(out.dag.fallback) = 1

\* C2: on the same vocabulary and input the naive pass and the character-trie
\* pass build the same lattice (same edge and same score at every boundary),
\* and tokenize and tokenize_dag return the same tokens with the same total.
C2_NaiveEqualsTrie ==
    (Returned("naive") /\ Returned("dag")) =>
        /\ out.naive.status = out.dag.status
        /\ out.naive.results = out.dag.results
        /\ out.naive.scores = out.dag.scores
        /\ out.naive.tokens = out.dag.tokens
        /\ (out.naive.status = "ok" /\ out.dag.status = "ok" =>
                out.naive.results[N + 1].score = out.dag.results[N + 1].score)

C2_Witness ==
    /\ Returned("naive") /\ Returned("dag")
    /\ out.dag.status = "ok"
    /\ N = 2
    /\ Cardinality(StartsAt(2)) = 2
    /\ Len(out.dag.tokens) = 1

\* C3: the double-array search of spiece_dart yields at every start position
\* the matches of the character trie, each with the same length in
\* characters, score and id, and the lattice of spiece_dart's decode_forward
\* is the character-trie lattice (stated for model files of distinct
\* non-empty pieces with finite scores).
C3_DartEqualsTrie ==
    /\ (WellFormedVocab /\ pc \in {"mid2", "done"}) =>
         \A b \in 0..(N - 1) :
            LET suffix == SubSeq(Text, b + 1, N)
                t == TrieSearch(suffix)
                d == DartSearch(suffix)
            IN /\ Len(d) = Len(t)
               /\ \A j \in 1..Len(d) :
                    /\ d[j].len = t[j].len
                    /\ d[j].score = t[j].score
                    /\ d[j].index = t[j].index
    /\ (WellFormedVocab /\ Returned("dart")) =>
         /\ out.dart.status = "ok"
         /\ out.dart.results = out.dag.results

\* C4: at a boundary i >= 1 where the fallback did not fire, best_score[i] is
\* the greatest best_score[start] + score over the vocabulary pieces
\* [start, i); when the fallback fired at no boundary in 1..i it is the
\* greatest total (summed left to right in f32) over the segmentations of
\* the prefix [0, i) into vocabulary pieces.
NextCut(C, pos, i) == MinOf({b \in C \cup {i} : b > pos})

RECURSIVE SegOk(_, _, _)
SegOk(C, pos, i) ==
    IF pos = i THEN TRUE
    ELSE LET b == NextCut(C, pos, i)
         IN PieceAt(pos, b) \in DOMAIN vocab /\ SegOk(C, b, i)

RECURSIVE SegScore(_, _, _, _)
SegScore(C, pos, i, acc) ==
    IF pos = i THEN acc
    ELSE LET b == NextCut(C, pos, i)
         IN SegScore(C, b, i, F32Add(acc, vocab[PieceAt(pos, b)].score))

Segmentations(i) == {C \in SUBSET (1..(i - 1)) : SegOk(C, 0, i)}

C4_BestScoreIsMax ==
    \A k \in Basic : out[k].status = "ok" =>
        \A i \in 1..N : i \notin out[k].fallback =>
            /\ out[k].scores[i + 1] = F32MaxOf({Cand(k, s, i) : s \in StartsAt(i)})
            /\ (out[k].fallback \cap (1..i) = {} =>
                    out[k].scores[i + 1] =
                        F32MaxOf({SegScore(C, 0, i, 0) : C \in Segmentations(i)}))

C4_Witness ==
    /\ out.naive.status = "ok" /\ out.dag.status = "ok"
    /\ N = 2
    /\ out.naive.fallback = {}
    /\ Cardinality(Segmentations(2)) = 2
    /\ \E C, D \in Segmentations(2) : SegScore(C, 0, 2, 0) < SegScore(D, 0, 2, 0)

\* C5 as claimed: with finite scores, the fallback edge is stored at boundary
\* i (and best_score[i] reset to 0) iff no substring [start, i) is a
\* vocabulary piece; otherwise the edge at i is a vocabulary piece with its id.
FallbackShape(k, i) ==
    /\ i \in out[k].fallback =>
         /\ out[k].results[i + 1] = ForcedEdge(i)
         /\ out[k].scores[i + 1] = 0
    /\ i \notin out[k].fallback =>
         /\ out[k].results[i + 1].some
         /\ out[k].results[i + 1].text \in DOMAIN vocab
         /\ out[k].results[i + 1].index = vocab[out[k].results[i + 1].text].index

C5_FallbackIffNoPiece ==
    FiniteVocab =>
        \A k \in Basic : out[k].status = "ok" =>
            \A i \in 1..N :
                /\ (i \in out[k].fallback <=> StartsAt(i) = {})
                /\ FallbackShape(k, i)

\* C5 as amended: with finite scores, the fallback edge is stored at boundary
\* i (and best_score[i] reset to 0) iff no vocabulary piece [start, i) gives
\* best_score[start] + score > f32::MIN, which is the case when no substring
\* [start, i) is a piece; otherwise the edge at i is a vocabulary piece with
\* its id.  A character that occurs in no piece is a token of its own, id 0.
C5_FallbackIffNoScoreAboveMin ==
    FiniteVocab =>
        \A k \in Basic : out[k].status = "ok" =>
            /\ \A i \in 1..N :
                /\ (i \in out[k].fallback <=>
                        ~\E s \in StartsAt(i) : F32Gt(Cand(k, s, i), F32MIN))
                /\ (StartsAt(i) = {} => i \in out[k].fallback)
                /\ FallbackShape(k, i)
            /\ LET path == DecodeBackward(out[k].results).seq
               IN \A i \in 1..N :
                    (\A t \in DOMAIN vocab : Text[i] \notin Range(t)) =>
                        \E j \in 1..Len(path) : path[j] = ForcedEdge(i)

C5_Witness ==
    /\ FiniteVocab
    /\ out.naive.status = "ok" /\ out.dag.status = "ok"
    /\ N = 2
    /\ \E i \in out.dag.fallback : StartsAt(i) # {}
    /\ \E i \in out.dag.fallback : StartsAt(i) = {}

\* C6: with T the tokens of x and y their concatenation with every U+2581
\* replaced by a space, tokenize(y) = T, and likewise for tokenize_dag.
C6_RoundTrip ==
    /\ out.naive.status = "ok" =>
         Tokenize(Denormalize(Concat(out.naive.tokens))).tokens = out.naive.tokens
    /\ out.dag.status = "ok" =>
         TokenizeDag(Denormalize(Concat(out.dag.tokens))).tokens = out.dag.tokens

C6_Witness ==
    /\ out.naive.status = "ok" /\ out.dag.status = "ok"
    /\ CH_LB \in Range(raw)
    /\ Denormalize(Concat(out.dag.tokens)) # raw
    /\ Len(out.dag.tokens) = 2

\* C7 as claimed: for a non-empty suffix the character-trie search returns
\* exactly the vocabulary pieces that are a prefix of the suffix, each once,
\* with the piece's length in characters, score and id, shortest first
\* (stated for vocabularies with finite scores).
NormChars == {Normalize(<<c>>)[1] : c \in RawChars}
Suffixes == StringsUpTo(NormChars, MaxLen) \ {<<>>}
IsPrefix(t, s) == Len(t) <= Len(s) /\ SubSeq(s, 1, Len(t)) = t

SearchReturns(suffix, expected) ==
    LET m == CommonPrefixSearch(root, suffix)
    IN /\ {m[j].text : j \in 1..Len(m)} = expected
       /\ \A j \in 1..Len(m) :
            /\ m[j].len = Len(m[j].text)
            /\ m[j].score = vocab[m[j].text].score
            /\ m[j].index = vocab[m[j].text].index
            /\ (j > 1 => m[j - 1].len < m[j].len)

C7_SearchAllPrefixes ==
    FiniteVocab =>
        \A suffix \in Suffixes :
            SearchReturns(suffix, {t \in DOMAIN vocab : IsPrefix(t, suffix)})

\* C7 as amended: for a non-empty suffix the character-trie search returns
\* exactly the non-empty vocabulary pieces that are a prefix of the suffix,
\* each once, with the piece's length in characters, score and id, shortest
\* first.
C7_SearchNonEmptyPrefixes ==
    \A suffix \in Suffixes :
        SearchReturns(suffix, {t \in DOMAIN vocab : t # <<>> /\ IsPrefix(t, suffix)})

C7_Witness ==
    /\ pc = "dag"
    /\ Len(fw.matches) = 2
    /\ fw.matches = CommonPrefixSearch(root, Text)

\* C8, the step: while candidates are examined, the edge at a boundary is
\* replaced only by a candidate whose score is strictly greater.
ExaminesCandidate ==
    /\ fw.status = "run"
    /\ \/ pc = "naive" /\ fw.char_start < fw.char_end
       \/ pc = "dag" /\ fw.matches # <<>>

C8_ReplaceStep ==
    (ExaminesCandidate /\ pc' = pc /\ fw'.status # "panic") =>
        \A e \in 1..Len(fw.results) :
            fw'.results[e] # fw.results[e] =>
                /\ fw'.results[e].some
                /\ F32Gt(fw'.results[e].score, fw.scores[e])
                /\ fw'.scores[e] = fw'.results[e].score
                /\ (fw.results[e].some =>
                        F32Gt(fw'.results[e].score, fw.results[e].score))

\* the starts of the candidates at boundary i that attain the greatest score
BestStarts(k, i) ==
    {s \in StartsAt(i) : Cand(k, s, i) = F32MaxOf({Cand(k, r, i) : r \in StartsAt(i)})}

\* C8 as claimed, the outcome: when several candidates ending at the same
\* boundary attain the same maximal score, the retained edge is the one
\* with the smallest start (stated for model files of distinct non-empty
\* pieces with finite scores).
C8_TieKeepsSmallestStart ==
    WellFormedVocab =>
        \A k \in Basic : out[k].status = "ok" =>
            \A i \in 1..N :
                Cardinality(BestStarts(k, i)) >= 2 =>
                    out[k].results[i + 1] = PieceEdge(k, MinOf(BestStarts(k, i)), i)

C8_TieOutcome ==
    \A k \in Basic : out[k].status = "ok" =>
        \A i \in 1..N :
            (Cardinality(BestStarts(k, i)) >= 2 /\ i \notin out[k].fallback) =>
                out[k].results[i + 1] = PieceEdge(k, MinOf(BestStarts(k, i)), i)

\* C8 as amended: in both forward passes an edge is replaced by a candidate
\* only when the candidate's score is strictly greater; hence when several
\* candidates ending at the same boundary attain the same maximal score and
\* the fallback does not fire there (that score is above f32::MIN), the
\* retained edge is the one with the smallest start.
C8_StrictReplaceAndTie == [][C8_ReplaceStep]_vars /\ []C8_TieOutcome

C8_Witness ==
    /\ out.naive.status = "ok" /\ out.dag.status = "ok"
    /\ \E i \in 1..N :
        /\ Cardinality(BestStarts("dag", i)) >= 2
        /\ i \notin out.dag.fallback
        /\ out.dag.results[i + 1].start = 0

\* C9 as claimed: during the load a node exists at a non-empty path P iff P
\* is a prefix of an inserted piece, its text is P and its len the number of
\* characters of P; a node is marked as a piece iff its path is an inserted
\* piece, and then has the score and id last inserted for it; the root is
\* never marked (stated for pieces with finite scores).
Inserted == {pieces[j].text : j \in 1..Len(pieces)}
LastOf(t) == CHOOSE j \in 1..Len(pieces) :
                /\ pieces[j].text = t
                /\ \A h \in 1..Len(pieces) : pieces[h].text = t => h <= j
Paths == StringsUpTo(PieceChars, MaxPieceLen)

TrieShape ==
    /\ <<>> \in DOMAIN root
    /\ DOMAIN root \subseteq Paths
    /\ \A P \in Paths \ {<<>>} :
         P \in DOMAIN root <=> \E t \in Inserted : IsPrefix(P, t)
    /\ \A P \in DOMAIN root :
         /\ root[P].text = P
         /\ root[P].len = Len(P)
         /\ root[P].children = {c \in PieceChars : Append(P, c) \in DOMAIN root}
         /\ root[P].leaf =>
              /\ P \in Inserted
              /\ root[P].score = pieces[LastOf(P)].score
              /\ root[P].index = LastOf(P) - 1
              /\ vocab[P] = [score |-> root[P].score, index |-> root[P].index]
    /\ ~root[<<>>].leaf
    /\ DOMAIN vocab = Inserted

C9_TrieMirrorsPieces ==
    FiniteVocab =>
        /\ TrieShape
        /\ \A P \in DOMAIN root : root[P].leaf <=> P \in Inserted

\* C9 as amended: the same, a node being marked as a piece iff its path is a
\* non-empty inserted piece (the root exists from the start and is never
\* marked, also when the empty piece is inserted).
C9_TrieMirrorsNonEmptyPieces ==
    /\ TrieShape
    /\ \A P \in DOMAIN root : root[P].leaf <=> (P # <<>> /\ P \in Inserted)

C9_Witness ==
    /\ Len(pieces) = 2
    /\ pieces[1].text = pieces[2].text
    /\ pieces[1].score # pieces[2].score
    /\ Len(pieces[1].text) = 2
    /\ CH_LB \in Range(pieces[1].text)

\* C10: when a forward pass has finished, the lattice entry at boundary 0 is
\* None and the entry at each boundary i in 1..n is an edge with end = i,
\* start < i and the text of [start, i); the backward pass from boundary n
\* goes through strictly decreasing boundaries and stops at boundary 0.
LatticeComplete(results) ==
    /\ Len(results) = N + 1
    /\ ~results[1].some
    /\ \A i \in 1..N :
         /\ results[i + 1].some
         /\ results[i + 1].end = i
         /\ results[i + 1].start < i
         /\ results[i + 1].start >= 0
         /\ results[i + 1].text = PieceAt(results[i + 1].start, i)

C10_LatticeComplete ==
    /\ (pc \in {"naive", "dag"} /\ fw.status # "run") =>
         /\ fw.status = "done"
         /\ LatticeComplete(fw.results)
    /\ \A k \in Basic : Returned(k) =>
         /\ out[k].status = "ok"
         /\ LatticeComplete(out[k].results)
         /\ LET b == DecodeBackward(out[k].results)
            IN /\ b.ok
               /\ (N > 0 => /\ b.seq # <<>>
                            /\ b.seq[1].start = 0
                            /\ b.seq[Len(b.seq)].end = N)
               /\ \A j \in 1..Len(b.seq) : b.seq[j].start < b.seq[j].end
               /\ \A j \in 2..Len(b.seq) : b.seq[j - 1].end = b.seq[j].start

C10_Witness ==
    /\ pc = "dag" /\ fw.status = "done"
    /\ N = 2
    /\ fw.fallback = {1}
    /\ fw.results[3].start = 0
====
